---- MODULE Spec2Model ----
(***************************************************************************)
(* Model of the Webdock API client of src/src/main.rs.                     *)
(*                                                                         *)
(* The client is a blocking, stateless request/response wrapper.  One call *)
(* of a method is modelled in two steps, because the call blocks in        *)
(* `.send()` while the request is in flight: the step that validates the   *)
(* input and dispatches the request, and the step in which the transport   *)
(* outcome arrives and the rest of make_request (send_response) runs.      *)
(* The call has then returned; the caller takes the result.                *)
(*                                                                         *)
(* Text is modelled as sequences: a JSON text is a sequence of tokens, a   *)
(* formatted message is the sequence of the pieces format! writes.         *)
(***************************************************************************)
EXTENDS Integers, Sequences, FiniteSets, TLC

\* Longest response body, in tokens, the environment sends.
MaxBodyLen == 4

(***************************************************************************)
(* serde_json::Value, restricted to the shapes the model needs.            *)
(***************************************************************************)
EmptyMap == [x \in {} |-> x]

Unit == [t |-> "unit", s |-> "", m |-> EmptyMap]

JTrue == [t |-> "true", s |-> "", m |-> EmptyMap]

JStr(s) == [t |-> "str", s |-> s, m |-> EmptyMap]

JObj(m) == [t |-> "obj", s |-> "", m |-> m]

\* Value::as_object: Some(map) only for an object.
as_object(v) == [some |-> v.t = "obj", m |-> v.m]

None == [some |-> FALSE, v |-> Unit]

Some(v) == [some |-> TRUE, v |-> v]

(***************************************************************************)
(* JSON text.  A token is punctuation, a member key (with its colon and    *)
(* the separating comma), a string or the literal true.                    *)
(***************************************************************************)
Tok(k, s) == [k |-> k, s |-> s]

LBrace == Tok("{", "")

RBrace == Tok("}", "")

\* Member keys in the order serde_json's map (a BTreeMap) iterates them.
KeyOrder == <<"extra", "imageSlug", "locationId", "name", "pong", "profileSlug", "slug">>

RECURSIVE to_vec(_)
RECURSIVE members_to_vec(_, _)
\* RequestBuilder::json: the value serialised to the request body.
to_vec(v) ==
    CASE v.t = "true" -> <<Tok("true", "")>>
      [] v.t = "str" -> <<Tok("str", v.s)>>
      [] v.t = "obj" -> <<LBrace>> \o members_to_vec(v.m, 1) \o <<RBrace>>
      [] OTHER -> <<>>

members_to_vec(m, i) ==
    IF i > Len(KeyOrder) THEN <<>>
    ELSE IF KeyOrder[i] \in DOMAIN m
         THEN <<Tok("key", KeyOrder[i])>> \o to_vec(m[KeyOrder[i]]) \o members_to_vec(m, i + 1)
         ELSE members_to_vec(m, i + 1)

ParseFail == [ok |-> FALSE, v |-> Unit, next |-> 0]

Put(m, k, v) == [x \in (DOMAIN m) \cup {k} |-> IF x = k THEN v ELSE m[x]]

RECURSIVE ParseValue(_, _)
RECURSIVE ParseMembers(_, _, _)
ParseValue(s, i) ==
    IF i > Len(s) THEN ParseFail
    ELSE CASE s[i].k = "true" -> [ok |-> TRUE, v |-> JTrue, next |-> i + 1]
           [] s[i].k = "str" -> [ok |-> TRUE, v |-> JStr(s[i].s), next |-> i + 1]
           [] s[i].k = "{" -> ParseMembers(s, i + 1, EmptyMap)
           [] OTHER -> ParseFail

ParseMembers(s, i, m) ==
    IF i > Len(s) THEN ParseFail
    ELSE IF s[i].k = "}" THEN [ok |-> TRUE, v |-> JObj(m), next |-> i + 1]
    ELSE IF s[i].k = "key"
         THEN LET r == ParseValue(s, i + 1)
              IN  IF r.ok THEN ParseMembers(s, r.next, Put(m, s[i].s, r.v)) ELSE ParseFail
         ELSE ParseFail

\* Response::json: the whole body must be one JSON value.
from_slice(s) ==
    LET r == ParseValue(s, 1)
    IN  IF r.ok /\ r.next = Len(s) + 1 THEN [ok |-> TRUE, v |-> r.v] ELSE [ok |-> FALSE, v |-> Unit]

(***************************************************************************)
(* WebdockError and the result of a call.                                  *)
(***************************************************************************)
Ok == [kind |-> "Ok", msg |-> <<>>, inner |-> "", val |-> Unit]

\* From<reqwest::Error>: every reqwest error, whatever its inner kind.
ReqwestError(inner) == [kind |-> "ReqwestError", msg |-> <<>>, inner |-> inner, val |-> Unit]

WebdockException(msg) == [kind |-> "WebdockException", msg |-> msg, inner |-> "", val |-> Unit]

ValidationException(msg) == [kind |-> "ValidationException", msg |-> msg, inner |-> "", val |-> Unit]

\* An abort: Option::expect on None, or indexing the map with a missing key.
Panic(msg) == [kind |-> "panic", msg |-> msg, inner |-> "", val |-> Unit]

Pending == [kind |-> "none", msg |-> <<>>, inner |-> "", val |-> Unit]

(***************************************************************************)
(* Webdock::new: the client's configuration.                               *)
(***************************************************************************)
base_url == "https://api.webdock.io/v1"

\* The table with the servers entry misspelt.
endpoints_typo ==
    [n \in {"ping", "server", "locations", "profiles", "images", "pubkeys",
            "scripts", "hooks", "events"} |->
        IF n = "pubkeys" THEN "account/publicKeys" ELSE n]

endpoints ==
    [n \in {"ping", "servers", "locations", "profiles", "images", "pubkeys",
            "scripts", "hooks", "events"} |->
        IF n = "pubkeys" THEN "account/publicKeys" ELSE n]

expects_raw == FALSE

\* format!("{}/{}", self.base_url, endpoint)
Url(endpoint) == <<base_url, "/", endpoint>>

(***************************************************************************)
(* Status codes and their display.                                         *)
(***************************************************************************)
DigitChar == <<"0", "1", "2", "3", "4", "5", "6", "7", "8", "9">>

RECURSIVE Digits(_)
\* Display of an integer: its decimal digits.
Digits(n) == IF n < 10 THEN <<DigitChar[n + 1]>> ELSE Digits(n \div 10) \o <<DigitChar[(n % 10) + 1]>>

\* StatusCode::canonical_reason, for the codes the environment sends.
canonical_reason(c) ==
    CASE c = 200 -> "OK"
      [] c = 201 -> "Created"
      [] c = 202 -> "Accepted"
      [] c = 204 -> "No Content"
      [] c = 400 -> "Bad Request"
      [] c = 404 -> "Not Found"
      [] c = 418 -> "I'm a teapot"
      [] c = 500 -> "Internal Server Error"
      [] c = 503 -> "Service Unavailable"
      [] OTHER -> "<unknown status code>"

\* res.status().to_string()
status_to_string(c) == Digits(c) \o <<" ", canonical_reason(c)>>

SuccessCodes == {200, 201, 202, 418}

DataLine(v) == [tag |-> "Response data: ", v |-> v, code |-> 0]

StatusLine(c) == [tag |-> "Response status: ", v |-> Unit, code |-> c]

\* send_response taking every 2xx status, and 418, for success.
send_response_2xx(res, json) ==
    IF res.status \div 100 = 2 \/ res.status = 418
    THEN IF json
         THEN LET data == from_slice(res.body)
              IN  IF data.ok
                  THEN [ret |-> Ok, out |-> <<DataLine(data.v)>>]
                  ELSE [ret |-> ReqwestError("decode"), out |-> <<>>]
         ELSE [ret |-> Ok, out |-> <<StatusLine(res.status)>>]
    ELSE [ret |-> WebdockException(Digits(res.status) \o <<" Error: ">> \o status_to_string(res.status)),
          out |-> <<>>]

\* send_response dropping the decode error (`res.json().ok()` for `res.json()?`).
send_response_swallow(res, json) ==
    IF res.status \in SuccessCodes
    THEN IF json
         THEN LET data == from_slice(res.body)
              IN  IF data.ok
                  THEN [ret |-> Ok, out |-> <<DataLine(data.v)>>]
                  ELSE [ret |-> Ok, out |-> <<>>]
         ELSE [ret |-> Ok, out |-> <<StatusLine(res.status)>>]
    ELSE [ret |-> WebdockException(Digits(res.status) \o <<" Error: ">> \o status_to_string(res.status)),
          out |-> <<>>]

\* send_response: the result and what it prints.
send_response(res, json) ==
    IF res.status \in SuccessCodes
    THEN IF expects_raw
         THEN [ret |-> Ok, out |-> <<>>]
         ELSE IF json
              THEN LET data == from_slice(res.body)
                   IN  IF data.ok
                       THEN [ret |-> Ok, out |-> <<DataLine(data.v)>>]
                       ELSE [ret |-> ReqwestError("decode"), out |-> <<>>]
              ELSE [ret |-> Ok, out |-> <<StatusLine(res.status)>>]
    ELSE [ret |-> WebdockException(Digits(res.status) \o <<" Error: ">> \o status_to_string(res.status)),
          out |-> <<>>]

(***************************************************************************)
(* make_request.  The part before `.send()` returns: the request put on    *)
(* the wire, or the result when nothing is sent.                           *)
(***************************************************************************)
Request(method, endpoint, body) == [method |-> method, url |-> Url(endpoint), body |-> body]

Sent(req, json) == [done |-> FALSE, sent |-> <<req>>, json |-> json, ret |-> Pending]

Returned(r) == [done |-> TRUE, sent |-> <<>>, json |-> FALSE, ret |-> r]

\* make_request leaving out `.json(data)`.
make_request_no_body(endpoint, request_type, data) ==
    CASE request_type = "GET" -> Sent(Request("GET", endpoint, <<>>), TRUE)
      [] request_type \in {"POST", "PATCH"} ->
            IF data.some
            THEN Sent(Request("POST", endpoint, <<>>), TRUE)
            ELSE Returned(Panic(<<"REASON">>))
      [] request_type = "DELETE" -> Sent(Request("DELETE", endpoint, <<>>), FALSE)
      [] OTHER -> Returned(ValidationException(<<"Unsupported request type">>))

\* make_request with GET as the default arm of the match.
make_request_default_get(endpoint, request_type, data) ==
    CASE request_type \in {"POST", "PATCH"} ->
            IF data.some
            THEN Sent(Request("POST", endpoint, to_vec(data.v)), TRUE)
            ELSE Returned(Panic(<<"REASON">>))
      [] request_type = "DELETE" -> Sent(Request("DELETE", endpoint, <<>>), FALSE)
      [] OTHER -> Sent(Request("GET", endpoint, <<>>), TRUE)

\* make_request calling send_response(res, true) in the DELETE arm too.
make_request_delete_json(endpoint, request_type, data) ==
    CASE request_type = "GET" -> Sent(Request("GET", endpoint, <<>>), TRUE)
      [] request_type \in {"POST", "PATCH"} ->
            IF data.some
            THEN Sent(Request("POST", endpoint, to_vec(data.v)), TRUE)
            ELSE Returned(Panic(<<"REASON">>))
      [] request_type = "DELETE" -> Sent(Request("DELETE", endpoint, <<>>), TRUE)
      [] OTHER -> Returned(ValidationException(<<"Unsupported request type">>))

make_request(endpoint, request_type, data) ==
    CASE request_type = "GET" -> Sent(Request("GET", endpoint, <<>>), TRUE)
      [] request_type \in {"POST", "PATCH"} ->
            IF data.some
            THEN Sent(Request("POST", endpoint, to_vec(data.v)), TRUE)
            ELSE Returned(Panic(<<"REASON">>))
      [] request_type = "DELETE" -> Sent(Request("DELETE", endpoint, <<>>), FALSE)
      [] OTHER -> Returned(ValidationException(<<"Unsupported request type">>))

\* The rest of make_request with the transport error dropped instead of `?`.
make_request_resume_absorb(outcome, json) ==
    IF ~outcome.ok
    THEN [ret |-> Ok, out |-> <<>>]
    ELSE send_response(outcome.res, json)

\* The part after `.send()` returns: `?` on the transport outcome, then
\* send_response(res, json)?, then Ok(()).
make_request_resume(outcome, json) ==
    IF ~outcome.ok
    THEN [ret |-> ReqwestError("connect"), out |-> <<>>]
    ELSE send_response(outcome.res, json)

\* self.endpoints[name]: aborts on a missing name.
Index(name) == [ok |-> name \in DOMAIN endpoints,
                path |-> IF name \in DOMAIN endpoints THEN endpoints[name] ELSE ""]

ping ==
    IF Index("ping").ok
    THEN make_request(Index("ping").path, "GET", None)
    ELSE Returned(Panic(<<"key not found">>))

servers ==
    IF Index("servers").ok
    THEN make_request(Index("servers").path, "GET", None)
    ELSE Returned(Panic(<<"key not found">>))

\* The list without its last field.
required_fields_short == <<"name", "slug", "locationId", "profileSlug">>

required_fields == <<"name", "slug", "locationId", "profileSlug", "imageSlug">>

RECURSIVE FirstMissing(_, _)
\* The loop over required_fields: the index of the first absent one, or 0.
FirstMissing(m, i) ==
    IF i > Len(required_fields) THEN 0
    ELSE IF required_fields[i] \notin DOMAIN m THEN i
    ELSE FirstMissing(m, i + 1)

provision_server(data) ==
    LET data_obj == as_object(data)
    IN  IF ~data_obj.some
        THEN Returned(ValidationException(<<"Invalid data format">>))
        ELSE LET i == FirstMissing(data_obj.m, 1)
             IN  IF i # 0
                 THEN Returned(ValidationException(
                          <<"Required field ", required_fields[i], " is missing.">>))
                 ELSE IF Index("servers").ok
                      THEN make_request(Index("servers").path, "POST", Some(data))
                      ELSE Returned(Panic(<<"key not found">>))

(***************************************************************************)
(* The inputs and the environment.                                         *)
(***************************************************************************)
RequiredKeys == {"name", "slug", "locationId", "profileSlug", "imageSlug"}

FieldValues == {"", "eu"}

\* The values handed to provision_server: objects over every set of the
\* required keys with every choice of values, each with and without a key
\* the client does not know, and values that are no object.
Inputs ==
    UNION {{JObj([k \in S \cup X |-> IF k \in S THEN JStr(f[k]) ELSE JTrue]) :
                f \in [S -> FieldValues], X \in {{}, {"extra"}}} : S \in SUBSET RequiredKeys}
        \cup {JTrue, JStr("eu")}

FullObject(v) == JObj([k \in RequiredKeys |-> JStr(v)])

\* The arguments of a direct call of make_request.
Paths == {endpoints[n] : n \in DOMAIN endpoints}

Verbs == {"GET", "POST", "PATCH", "DELETE", "PUT", "get"}

Bodies_in == {None, Some(FullObject(""))}

Statuses == {200, 201, 202, 204, 400, 404, 418, 500, 503}

BodyTokens == {LBrace, RBrace, Tok("key", "pong"), Tok("true", "")}

ResponseBodies == UNION {[1..n -> BodyTokens] : n \in 0..MaxBodyLen}

NoRes == [status |-> 0, body |-> <<>>]

\* What `.send()` returns: a transport failure or a response.
Outcomes ==
    {[ok |-> FALSE, res |-> NoRes]}
        \cup {[ok |-> TRUE, res |-> [status |-> c, body |-> b]] : c \in Statuses, b \in ResponseBodies}

VARIABLES pc, call, wire, resp, ret, stdout

vars == <<pc, call, wire, resp, ret, stdout>>

NoCall == [method |-> "none", endpoint |-> "", verb |-> "", data |-> None, json |-> FALSE]

Init ==
    /\ pc = "idle"
    /\ call = NoCall
    /\ wire = <<>>
    /\ resp = [ok |-> FALSE, res |-> NoRes]
    /\ ret = Pending
    /\ stdout = <<>>

\* A call starts: d is what the method did up to `.send()`.
Start(method, endpoint, verb, data, d) ==
    /\ call' = [method |-> method, endpoint |-> endpoint, verb |-> verb, data |-> data, json |-> d.json]
    /\ wire' = d.sent
    /\ resp' = [ok |-> FALSE, res |-> NoRes]
    /\ stdout' = <<>>
    /\ ret' = d.ret
    /\ pc' = IF d.done THEN "returned" ELSE "sending"

Ping ==
    /\ pc = "idle"
    /\ Start("ping", "ping", "GET", None, ping)

Servers ==
    /\ pc = "idle"
    /\ Start("servers", "servers", "GET", None, servers)

ProvisionServer ==
    /\ pc = "idle"
    /\ \E data \in Inputs :
          Start("provision_server", "servers", "POST", Some(data), provision_server(data))

MakeRequest ==
    /\ pc = "idle"
    /\ \E endpoint \in Paths, request_type \in Verbs, data \in Bodies_in :
          Start("make_request", endpoint, request_type, data,
                make_request(endpoint, request_type, data))

\* `.send()` returns and the call runs to its end.
Respond ==
    /\ pc = "sending"
    /\ \E outcome \in Outcomes :
          LET r == make_request_resume(outcome, call.json)
          IN  /\ ret' = r.ret
              /\ stdout' = r.out
              /\ resp' = outcome
    /\ pc' = "returned"
    /\ UNCHANGED <<call, wire>>

\* The caller takes the result; the call's request and response are dropped
\* and the client is as it was after construction.
Return ==
    /\ pc = "returned"
    /\ pc' = "idle"
    /\ call' = NoCall
    /\ wire' = <<>>
    /\ resp' = [ok |-> FALSE, res |-> NoRes]
    /\ ret' = Pending
    /\ stdout' = <<>>

Next ==
    \/ Ping
    \/ Servers
    \/ ProvisionServer
    \/ MakeRequest
    \/ Respond
    \/ Return

Spec == Init /\ [][Next]_vars

(***************************************************************************)
(* Properties.                                                             *)
(***************************************************************************)
Supported == {"GET", "POST", "PATCH", "DELETE"}

Public == {"ping", "servers", "provision_server"}

ErrorKinds == {"ReqwestError", "WebdockException", "ValidationException"}

\* The call has returned and its request was answered by a response.
Answered == pc = "returned" /\ Len(wire) = 1 /\ resp.ok

\* The call has returned and its request failed in transport.
TransportFailed == pc = "returned" /\ Len(wire) = 1 /\ ~resp.ok

IsDigit(c) == \E d \in 0..9 : DigitChar[d + 1] = c

DigitVal(c) == CHOOSE d \in 0..9 : DigitChar[d + 1] = c

RECURSIVE LeadingInt(_, _, _)
\* The decimal number a message starts with.
LeadingInt(msg, i, acc) ==
    IF i <= Len(msg) /\ IsDigit(msg[i])
    THEN LeadingInt(msg, i + 1, acc * 10 + DigitVal(msg[i]))
    ELSE acc

\* A service error that carries the code c.
ServiceError(r, c) ==
    /\ r.kind = "WebdockException"
    /\ Len(r.msg) > 0
    /\ IsDigit(r.msg[1])
    /\ LeadingInt(r.msg, 1, 0) = c

\* The value is no object, or an object without one of the five required keys.
Incomplete(v) ==
    \/ v.t # "obj"
    \/ \E k \in {"name", "slug", "locationId", "profileSlug", "imageSlug"} : k \notin DOMAIN v.m

\* The error kind a transport failure is reported with.
TransportKind == make_request_resume([ok |-> FALSE, res |-> NoRes], TRUE).ret.kind

\* C1 as stated: send_response returns success for every response with status
\* 200, 201, 202 or 418, and a service error carrying the code for every other.
C1_AsStated ==
    Answered =>
        IF resp.res.status \in {200, 201, 202, 418}
        THEN ret.kind = "Ok"
        ELSE ServiceError(ret, resp.res.status)

\* C1 amended: for status 200, 201, 202 or 418 send_response returns success,
\* unless a JSON body is expected and the body does not decode, when it returns
\* the reqwest error; for every other status it returns a service error that
\* carries that exact code.
C1_Classification ==
    Answered =>
        IF resp.res.status \in {200, 201, 202, 418}
        THEN IF call.json /\ ~from_slice(resp.res.body).ok
             THEN ret.kind = "ReqwestError"
             ELSE ret.kind = "Ok"
        ELSE ServiceError(ret, resp.res.status)

C1_Witness ==
    /\ Answered
    /\ resp.res.status = 418
    /\ call.json
    /\ from_slice(resp.res.body).ok
    /\ ret.kind = "Ok"

\* C2: provision_server with a value that is no object, or an object missing a
\* required key, returns a validation error and dispatches no request.
C2_ValidationBeforeDispatch ==
    (call.method = "provision_server" /\ Incomplete(call.data.v)) =>
        /\ pc = "returned"
        /\ ret.kind = "ValidationException"
        /\ wire = <<>>
        /\ ~resp.ok

C2_Witness ==
    /\ call.method = "provision_server"
    /\ call.data.v.t = "obj"
    /\ DOMAIN call.data.v.m = {"name", "slug", "locationId", "profileSlug", "extra"}
    /\ pc = "returned"
    /\ ret.kind = "ValidationException"
    /\ wire = <<>>

\* C3: provision_server with an object holding all five required keys
\* dispatches exactly one request, a POST to base_url/servers whose body is
\* the supplied object.
C3_ProvisionDispatch ==
    (call.method = "provision_server" /\ ~Incomplete(call.data.v)) =>
        /\ Len(wire) = 1
        /\ wire[1].method = "POST"
        /\ wire[1].url = <<"https://api.webdock.io/v1", "/", "servers">>
        /\ from_slice(wire[1].body) = [ok |-> TRUE, v |-> call.data.v]

C3_Witness ==
    /\ call.method = "provision_server"
    /\ call.data.v = FullObject("")
    /\ pc = "returned"
    /\ Len(wire) = 1
    /\ wire[1].method = "POST"

C5_AsStated ==
    (Answered /\ call.verb = "GET") =>
        /\ (resp.res.status \in {200, 201, 202, 418} /\ from_slice(resp.res.body).ok) =>
              /\ ret.kind = "Ok"
              /\ ret.val = from_slice(resp.res.body).v
        /\ resp.res.status = 503 => ServiceError(ret, 503)

\* C6 as stated: a success status with an undecodable body, where a JSON body
\* is expected, returns an error of a kind other than the transport failures'.
C6_AsStated ==
    (Answered /\ call.json /\ resp.res.status \in {200, 201, 202, 418}
        /\ ~from_slice(resp.res.body).ok) =>
        /\ ret.kind \in ErrorKinds
        /\ ret.kind # TransportKind

\* C6 amended: a success status with an undecodable body, where a JSON body is
\* expected, returns an error, of the kind ReqwestError that transport
\* failures are reported with too; only the wrapped reqwest error tells them
\* apart.
C6_DecodeFailure ==
    (Answered /\ call.json /\ resp.res.status \in {200, 201, 202, 418}
        /\ ~from_slice(resp.res.body).ok) =>
        /\ ret.kind = "ReqwestError"
        /\ ret.kind = TransportKind
        /\ ret.inner = "decode"
        /\ stdout = <<>>

C6_Witness ==
    /\ Answered
    /\ call.verb = "GET"
    /\ resp.res.status = 200
    /\ resp.res.body = <<LBrace, Tok("key", "pong"), Tok("true", "")>>
    /\ ret.kind = "ReqwestError"

\* C7: a DELETE never decodes the response body: nothing decoded is printed,
\* no decode error is returned, and a success status gives success whatever
\* the body is.
C7_DeleteNoDecode ==
    (Answered /\ call.verb = "DELETE") =>
        /\ \A i \in 1..Len(stdout) : stdout[i].tag # "Response data: "
        /\ ret.inner # "decode"
        /\ resp.res.status \in {200, 201, 202, 418} => ret.kind = "Ok"

C7_Witness ==
    /\ Answered
    /\ call.verb = "DELETE"
    /\ resp.res.status = 200
    /\ Len(resp.res.body) > 0
    /\ ~from_slice(resp.res.body).ok
    /\ ret.kind = "Ok"

\* C8: a call dispatches at most one request, and when that request ends in a
\* transport failure, a non-success status or a decode failure the call
\* returns an error, with no further request.
C8_NoRetryNoAbsorb ==
    /\ Len(wire) <= 1
    /\ TransportFailed => ret.kind \in ErrorKinds
    /\ (Answered /\ resp.res.status \notin {200, 201, 202, 418}) => ret.kind \in ErrorKinds
    /\ (Answered /\ call.json /\ ~from_slice(resp.res.body).ok) => ret.kind \in ErrorKinds

C8_Witness ==
    /\ TransportFailed
    /\ call.method = "servers"
    /\ ret.kind = "ReqwestError"
    /\ Len(wire) = 1

\* C9 as stated: the request make_request issues has the HTTP method of the
\* verb it was called with, goes to base_url/endpoint, and for POST and PATCH
\* carries the supplied body.
C9_AsStated ==
    (call.method = "make_request" /\ call.verb \in Supported /\ Len(wire) = 1) =>
        /\ wire[1].method = call.verb
        /\ wire[1].url = <<"https://api.webdock.io/v1", "/", call.endpoint>>
        /\ call.verb \in {"POST", "PATCH"} =>
              from_slice(wire[1].body) = [ok |-> TRUE, v |-> call.data.v]

\* C10: a call of ping, servers or provision_server never aborts: it returns
\* Ok or one of the three error kinds.
C10_PublicNeverPanics ==
    call.method \in Public =>
        /\ ret.kind # "panic"
        /\ pc = "returned" => ret.kind \in ErrorKinds \cup {"Ok"}

C10_Witness ==
    /\ call.method = "provision_server"
    /\ pc = "returned"
    /\ Answered
    /\ ret.kind = "Ok"

====
